---- MODULE Spec2Model ----
(***************************************************************************)
(* Model of src/src/app.py: the Maven vs. coffee market dashboard.         *)
(*                                                                         *)
(* The module-level code (lines 11-103) is the action Startup; the two     *)
(* Dash callbacks reset_date_range (113-117) and update_dashboard          *)
(* (129-250) are actions of the same names; the nested helper pct_growth   *)
(* (220-223) and format_pct (232-233) are operators.                       *)
(*                                                                         *)
(* A pandas Timestamp is a record [day, tick]: a calendar day and a time   *)
(* of day (tick 0 is midnight).  A datetime.date is a day number, and the  *)
(* ISO string str(date) is the record [iso |-> day].  A numeric cell or a  *)
(* local of a handler is a record [k, n, d]: the fraction n/d in lowest    *)
(* terms (k = "num"), Python's None (k = "None") or float nan (k = "NaN"). *)
(***************************************************************************)
EXTENDS Integers, Sequences, FiniteSets, TLC

\* ------------------------------------------------------------------ bounds
MaxOrders == 2      \* rows of maven_orders.csv
MaxMarket == 2      \* rows of coffee_market.csv
MaxClicks == 2      \* cap on the button's n_clicks counter
MaxAbs    == 5      \* |a|, |b| <= MaxAbs for the arguments of pct_growth alone

Days     == {1, 2}
Ticks    == {0, 1}                        \* 0 = 00:00:00, 1 = a later time of day
Products == {"Arabica", "Robusta"}
NaNProduct == "nan"                       \* a missing Product cell
NoUpdate == [kind |-> "no_update"]        \* dash.no_update
Unset    == [unset |-> TRUE]              \* a name not yet bound

\* ---------------------------------------------------------------- numbers
None == [k |-> "None", n |-> 0, d |-> 1]  \* Python's None
NaN  == [k |-> "NaN",  n |-> 0, d |-> 1]  \* float nan, a missing numeric cell

Abs(x) == IF x < 0 THEN -x ELSE x

RECURSIVE Gcd(_, _)
Gcd(a, b) == IF b = 0 THEN a ELSE Gcd(b, a % b)

\* The fraction n/d (d # 0) in lowest terms with a positive denominator.
Frac(n, d) ==
    LET g == Gcd(Abs(n), Abs(d))
        s == IF d < 0 THEN -1 ELSE 1
    IN [k |-> "num", n |-> (s * n) \div g, d |-> Abs(d) \div g]

Num(i) == [k |-> "num", n |-> i, d |-> 1]

IsNum(x) == x.k = "num"
NumLeq(a, b) == a.n * b.d <= b.n * a.d

Timestamps == [day : Days, tick : Ticks]

\* ----------------------------------------------------------- date helpers
\* Timestamp comparison (the >= and <= of lines 134-135, 146-147, 210-211).
TsLeq(a, b) == a.day < b.day \/ (a.day = b.day /\ a.tick <= b.tick)

\* Timestamp.date(): the calendar day, the time of day dropped (lines 34-35).
DateOf(ts) == ts.day

\* str(date): the ISO string of a date (line 116; Dash serialises the layout's
\* date objects of lines 82-83 the same way).
DateStr(d) == [iso |-> d]

\* pd.to_datetime("YYYY-MM-DD"): midnight of that day (lines 134-135).
ToDatetime(s) == [day |-> s.iso, tick |-> 0]

\* ------------------------------------------------------------- input files
\* The rows a CSV file of this model can hold.  A file is [columns, rows]; a row
\* is a function on the file's columns.  The file of zero bytes has no columns.
OrderDates   == {[day |-> 1, tick |-> 0], [day |-> 2, tick |-> 0], [day |-> 2, tick |-> 1]}
BagPrices    == {Num(10), Num(12)}
BagCounts    == {5}
OrderRows    == [Date : OrderDates, Product : Products, BagPrice : BagPrices, Bags : BagCounts]

MarketDates  == {[day |-> 1, tick |-> 0], [day |-> 2, tick |-> 0]}
MarketValues == {Num(4), Num(5)}
MarketRows   == [Date : MarketDates, MarketPrices : MarketValues]

MavenColumns  == {"Date", "Product", "BagPrice", "Bags"}
MarketColumns == {"Date", "MarketPrices"}

SeqsUpTo(S, n) == UNION {[1..k -> S] : k \in 0..n}

Restrict(r, cols) == [c \in cols |-> r[c]]

\* Well-formed files: every column present, at least one row.
MavenFiles  == {[columns |-> MavenColumns, rows |-> rs] : rs \in SeqsUpTo(OrderRows, MaxOrders) \ {<<>>}}
MarketFiles == {[columns |-> MarketColumns, rows |-> rs] : rs \in SeqsUpTo(MarketRows, MaxMarket) \ {<<>>}}

\* ------------------------------------------------------- data preparation
\* DataFrame.sort_values("Date") (lines 17-18, 213): ascending by Date; rows of
\* equal Date keep their order.
RECURSIVE InsertByDate(_, _)
InsertByDate(row, s) ==
    IF s = <<>> THEN <<row>>
    ELSE IF TsLeq(Head(s).Date, row.Date)
         THEN <<Head(s)>> \o InsertByDate(row, Tail(s))
         ELSE <<row>> \o s

RECURSIVE SortValues(_)
SortValues(s) ==
    IF s = <<>> THEN <<>>
    ELSE InsertByDate(s[Len(s)], SortValues(SubSeq(s, 1, Len(s) - 1)))

\* shift(-1) in place of shift(1): each row gets the next row's value.
Shift1_Forward(col) == [i \in 1..Len(col) |-> IF i = Len(col) THEN NaN ELSE col[i + 1]]

\* Series.shift(1) (line 24): each row gets the previous row's value, the first NaN.
Shift1(col) == [i \in 1..Len(col) |-> IF i = 1 THEN NaN ELSE col[i - 1]]

\* DataFrame.max(axis=1) / min(axis=1) over two columns, NaN skipped (lines 26-27).
RowMax(a, b) == IF a = NaN THEN b ELSE IF b = NaN THEN a ELSE IF NumLeq(b, a) THEN a ELSE b
RowMin(a, b) == IF a = NaN THEN b ELSE IF b = NaN THEN a ELSE IF NumLeq(a, b) THEN a ELSE b

\* Lines 23-27: the candle columns added to a copy of df_market.
WithCandleColumns(market) ==
    LET open == Shift1([i \in 1..Len(market) |-> market[i].MarketPrices])
    IN [i \in 1..Len(market) |->
          [Date         |-> market[i].Date,
           MarketPrices |-> market[i].MarketPrices,
           Open         |-> open[i],
           Close        |-> market[i].MarketPrices,
           High         |-> RowMax(open[i], market[i].MarketPrices),
           Low          |-> RowMin(open[i], market[i].MarketPrices)]]

\* dropna(subset=["Open"]) (line 28).
DropNaOpen(candles) == SelectSeq(candles, LAMBDA c : c.Open # NaN)

MarketCandle(market) == DropNaOpen(WithCandleColumns(market))

\* sorted(df_maven["Product"].dropna().unique()) (line 31).
ProductRank(p) == IF p = "Arabica" THEN 1 ELSE 2
RECURSIVE SortedProducts(_)
SortedProducts(S) ==
    IF S = {} THEN <<>>
    ELSE LET m == CHOOSE p \in S : \A q \in S : ProductRank(p) <= ProductRank(q)
         IN <<m>> \o SortedProducts(S \ {m})
UniqueProducts(maven) == SortedProducts({maven[i].Product : i \in 1..Len(maven)} \ {NaNProduct})

\* df_maven["Date"].min() / .max() (lines 34-35, 80-81).
MinDate(maven) == CHOOSE t \in {maven[i].Date : i \in 1..Len(maven)} :
                      \A i \in 1..Len(maven) : TsLeq(t, maven[i].Date)
MaxDate(maven) == CHOOSE t \in {maven[i].Date : i \in 1..Len(maven)} :
                      \A i \in 1..Len(maven) : TsLeq(maven[i].Date, t)

\* The line of the module-level code that raises for these two files, 0 if none.
\*   11/12  pd.read_csv: EmptyDataError on a file of zero bytes, ValueError when
\*          the parse_dates column "Date" is missing
\*   15/16  .dt on the object-typed Date column of a file with a header and no rows
\*   24     KeyError "MarketPrices";  31  KeyError "Product"
\*   72     unique_products[0] on an empty catalog
StartupFailure(maven, market) ==
    IF "Date" \notin maven.columns THEN 11
    ELSE IF "Date" \notin market.columns THEN 12
    ELSE IF maven.rows = <<>> THEN 15
    ELSE IF market.rows = <<>> THEN 16
    ELSE IF "MarketPrices" \notin market.columns THEN 24
    ELSE IF "Product" \notin maven.columns THEN 31
    ELSE IF UniqueProducts(maven.rows) = <<>> THEN 72
    ELSE 0

\* ------------------------------------------------------------------- KPIs
\* pct_growth without the test start == 0 of line 221.
pct_growth_NoZeroTest(start, end) ==
    IF start = None \/ end = None THEN None
    ELSE IF start = NaN \/ end = NaN THEN NaN
    ELSE Frac((end.n * start.d - start.n * end.d) * 100 * start.d,
              end.d * start.d * start.n)

\* pct_growth (lines 220-223).  With a nan argument the arithmetic of line 223
\* gives nan.
pct_growth(start, end) ==
    IF start = None \/ end = None \/ start = Num(0) THEN None
    ELSE IF start = NaN \/ end = NaN THEN NaN
    ELSE Frac((end.n * start.d - start.n * end.d) * 100 * start.d,
              end.d * start.d * start.n)

\* round(n/d * 100) to the nearest integer, ties to even: the hundredths that
\* the format spec .2f prints.
Hundredths(p) ==
    LET n == p.n * 100
        q == n \div p.d
        r == n % p.d
    IN IF 2 * r > p.d THEN q + 1
       ELSE IF 2 * r < p.d THEN q
       ELSE IF q % 2 = 0 THEN q ELSE q + 1

\* format_pct (lines 232-233): f"{p:.2f}%" or "N/A".
format_pct(p) ==
    IF p = None THEN [text |-> "N/A"]
    ELSE IF p = NaN THEN [text |-> "nan%"]
    ELSE [text |-> "%.2f%", hundredths |-> Hundredths(p)]

\* ------------------------------------------------------------------ state
VARIABLES
    pc,                \* "start" | "serving" | "failed": the process
    exc,               \* line of the uncaught exception that ended startup, or 0
    df_maven,          \* lines 11, 15, 17
    df_market,         \* lines 12, 16, 18
    df_market_candle,  \* lines 23-28
    maven_columns,     \* df_maven.columns
    unique_products,   \* line 31
    default_start,     \* line 34
    default_end,       \* line 35
    product,           \* product-dropdown.value (line 72)
    start_date,        \* date-picker.start_date (line 82)
    end_date,          \* date-picker.end_date (line 83)
    n_clicks,          \* reset-date-btn.n_clicks (line 87)
    reset_pending,     \* Dash owes a call of reset_date_range
    update_pending,    \* Dash owes a call of update_dashboard
    reset_ret,         \* what the last call of reset_date_range returned
    response,          \* what update_dashboard returned for the current inputs
    pg                 \* one call of pct_growth: [pc, start, end, ret]

tables == <<df_maven, df_market, df_market_candle, maven_columns,
            unique_products, default_start, default_end>>
inputs == <<product, start_date, end_date, n_clicks>>
dash   == <<reset_pending, update_pending, reset_ret, response>>
vars   == <<pc, exc, tables, inputs, dash, pg>>

\* ------------------------------------------------------- update_dashboard
\* The boolean masks of lines 133-135, 146-147 and 210-211.
InRange(ts, start, end) == TsLeq(ToDatetime(start), ts) /\ TsLeq(ts, ToDatetime(end))

DffMaven(selected_product, start, end) ==
    SelectSeq(df_maven, LAMBDA r : r.Product = selected_product /\ InRange(r.Date, start, end))

DffMarketCandle(start, end) ==
    SelectSeq(df_market_candle, LAMBDA r : InRange(r.Date, start, end))

\* Lines 210-213: the slice of df_market, sorted again.
DffMarket(start, end) ==
    SortValues(SelectSeq(df_market, LAMBDA r : InRange(r.Date, start, end)))

\* Lines 206-207: .iloc[0] and .iloc[-1].
First(s) == s[1]
Last(s)  == s[Len(s)]

EmptyNotice == "No data for this product in the selected date range."

\* Lines 136-138.
EmptyResult ==
    [kind |-> "Empty", figure |-> <<>>, children |-> <<EmptyNotice>>]

\* What the handler raises: a column it reads is not in df_maven.
ErrorResult(line) == [kind |-> "Error", line |-> line]

\* Lines 206-229: the KPI locals.
Kpis(dff_maven, dff_market) ==
    LET earliest_maven  == First(dff_maven).BagPrice
        latest_maven    == Last(dff_maven).BagPrice
        earliest_market == IF dff_market # <<>> THEN First(dff_market).MarketPrices ELSE None
        latest_market   == IF dff_market # <<>> THEN Last(dff_market).MarketPrices ELSE None
    IN [market_growth |-> pct_growth(earliest_market, latest_market),
        price_change  |-> pct_growth(earliest_maven, latest_maven),
        differential  |-> IF latest_market # None
                          THEN pct_growth(latest_market, latest_maven) ELSE None]

\* Lines 143-178: the three traces.
Figure(selected_product, dff_maven, dff_candle) ==
    [title       |-> selected_product,
     candlestick |-> [i \in 1..Len(dff_candle) |->
                        [x |-> dff_candle[i].Date, open |-> dff_candle[i].Open,
                         high |-> dff_candle[i].High, low |-> dff_candle[i].Low,
                         close |-> dff_candle[i].Close]],
     scatter     |-> [i \in 1..Len(dff_maven) |->
                        [x |-> dff_maven[i].Date, y |-> dff_maven[i].BagPrice]],
     bar         |-> [i \in 1..Len(dff_maven) |->
                        [x |-> dff_maven[i].Date, y |-> dff_maven[i].Bags]]]

\* Lines 235-248: the three cards, in this order.
KpiCards(k) ==
    <<[title |-> "Market Growth", value |-> format_pct(k.market_growth), suffix |-> ""],
      [title |-> "Price Change",  value |-> format_pct(k.price_change),  suffix |-> ""],
      [title |-> "Latest Diff",   value |-> format_pct(k.differential),  suffix |-> " vs. Market"]>>

\* The return value of update_dashboard (lines 129-250), with the locals the
\* figure and the cards are made of.
DashboardResult(selected_product, start, end) ==
    LET dff_maven == DffMaven(selected_product, start, end)
    IN IF dff_maven = <<>> THEN EmptyResult
       ELSE IF "BagPrice" \notin maven_columns THEN ErrorResult(163)
       ELSE IF "Bags" \notin maven_columns THEN ErrorResult(173)
       ELSE LET dff_market == DffMarket(start, end)
                k == Kpis(dff_maven, dff_market)
            IN [kind       |-> "Populated",
                figure     |-> Figure(selected_product, dff_maven,
                                      DffMarketCandle(start, end)),
                children   |-> KpiCards(k),
                dff_maven  |-> dff_maven,
                dff_market |-> dff_market,
                kpi        |-> k]

\* Line 210 without a new frame: the rows out of range are dropped from
\* df_market itself.
FramesAfterUpdate_InPlace(selected_product, start, end) ==
    [df_maven |-> df_maven, df_market |-> DffMarket(start, end),
     df_market_candle |-> df_market_candle]

\* The module-level frames after a call of update_dashboard: every selection of
\* lines 133-135, 146-147, 210-211 is a new frame, and the in-place sort of line
\* 213 acts on the .copy() of line 211, so the frames are the ones before.
FramesAfterUpdate(selected_product, start, end) ==
    [df_maven |-> df_maven, df_market |-> df_market, df_market_candle |-> df_market_candle]

\* ------------------------------------------------------- reset_date_range
\* Line 114 as "if n_clicks > 1": the first click is taken for the page load.
ResetResult_SecondClick(clicks) ==
    IF clicks > 1
    THEN [kind |-> "dates", start |-> DateStr(default_start), end |-> DateStr(default_end)]
    ELSE NoUpdate

\* Lines 113-117.
ResetResult(clicks) ==
    IF clicks # 0
    THEN [kind |-> "dates", start |-> DateStr(default_start), end |-> DateStr(default_end)]
    ELSE NoUpdate

\* --------------------------------------------------------------- startup
\* Files as they may arrive: any column missing, a header with no rows, zero
\* bytes, missing cells.
PrepOrderRows  == [Date : {[day |-> 1, tick |-> 0], [day |-> 2, tick |-> 1]},
                   Product : {"Arabica", NaNProduct}, BagPrice : {Num(10)}, Bags : BagCounts]
PrepMarketRows == [Date : Timestamps, MarketPrices : MarketValues \cup {NaN}]

ColumnChoices(all) == {all} \cup {all \ {c} : c \in all} \cup {{}}

\* Every choice of columns with every sequence of rows, each row cut down to
\* the columns of the file; a file without columns has no rows either.
FilesOf(all, pool, n) ==
    {[columns |-> cols,
      rows    |-> [i \in 1..Len(rs) |-> Restrict(rs[i], cols)]] :
        cols \in ColumnChoices(all),
        rs \in SeqsUpTo(pool, n)} \ {f \in [columns : {{}}, rows : SeqsUpTo({<<>>}, n)] : f.rows # <<>>}

AnyMavenFiles  == FilesOf(MavenColumns, PrepOrderRows, MaxOrders)
AnyMarketFiles == FilesOf(MarketColumns, PrepMarketRows, MaxMarket)

InitDash ==
    /\ pc = "start" /\ exc = 0
    /\ df_maven = <<>> /\ df_market = <<>> /\ df_market_candle = <<>>
    /\ maven_columns = {}
    /\ unique_products = <<>>
    /\ default_start = 0 /\ default_end = 0
    /\ product = "" /\ start_date = Unset /\ end_date = Unset /\ n_clicks = 0
    /\ reset_pending = FALSE /\ update_pending = FALSE
    /\ reset_ret = Unset /\ response = Unset

PgIdle == [pc |-> "idle", start |-> None, end |-> None, ret |-> None]

Init == InitDash /\ pg = PgIdle

\* Lines 11-103, run once when the module is imported.  An uncaught exception
\* ends the process; otherwise the tables and the layout exist and Dash makes
\* the initial call of each callback when the page loads.
Startup(mavenFiles, marketFiles) ==
    /\ pc = "start"
    /\ \E maven \in mavenFiles, market \in marketFiles :
         LET line == StartupFailure(maven, market)
         IN IF line # 0
            THEN /\ pc' = "failed" /\ exc' = line
                 /\ UNCHANGED <<tables, inputs, dash>>
            ELSE LET maven_sorted  == SortValues(maven.rows)
                     market_sorted == SortValues(market.rows)
                 IN /\ pc' = "serving" /\ exc' = 0
                    /\ df_maven' = maven_sorted
                    /\ df_market' = market_sorted
                    /\ df_market_candle' = MarketCandle(market_sorted)
                    /\ maven_columns' = maven.columns
                    /\ unique_products' = UniqueProducts(maven_sorted)
                    /\ default_start' = DateOf(MinDate(maven_sorted))
                    /\ default_end' = DateOf(MaxDate(maven_sorted))
                    /\ product' = UniqueProducts(maven_sorted)[1]
                    /\ start_date' = DateStr(DateOf(MinDate(maven_sorted)))
                    /\ end_date' = DateStr(DateOf(MaxDate(maven_sorted)))
                    /\ n_clicks' = 0
                    /\ reset_pending' = TRUE /\ update_pending' = TRUE
                    /\ reset_ret' = Unset /\ response' = Unset
    /\ UNCHANGED pg

StartupWellFormed == Startup(MavenFiles, MarketFiles)
StartupAnyFiles   == Startup(AnyMavenFiles, AnyMarketFiles)

\* ------------------------------------------------------------ user events
Idle == pc = "serving" /\ ~reset_pending /\ ~update_pending

\* The user picks a product of the dropdown (its options are unique_products,
\* line 71): Dash owes update_dashboard.
SelectProduct ==
    /\ Idle
    /\ \E i \in 1..Len(unique_products) : product' = unique_products[i]
    /\ update_pending' = TRUE /\ response' = Unset
    /\ UNCHANGED <<pc, exc, tables, start_date, end_date, n_clicks, reset_pending, reset_ret, pg>>

\* The user picks a start and an end date: Dash owes update_dashboard.
PickDates ==
    /\ Idle
    /\ \E s \in Days, e \in Days : start_date' = DateStr(s) /\ end_date' = DateStr(e)
    /\ update_pending' = TRUE /\ response' = Unset
    /\ UNCHANGED <<pc, exc, tables, product, n_clicks, reset_pending, reset_ret, pg>>

\* The user clicks "Reset Date Range": Dash owes reset_date_range.
ClickReset ==
    /\ Idle
    /\ n_clicks < MaxClicks
    /\ n_clicks' = n_clicks + 1
    /\ reset_pending' = TRUE
    /\ UNCHANGED <<pc, exc, tables, product, start_date, end_date, update_pending, reset_ret, response, pg>>

\* -------------------------------------------------------------- callbacks
\* reset_date_range (lines 108-117): its return value goes to the date picker;
\* a date written there makes Dash owe update_dashboard, no_update does not.
reset_date_range ==
    /\ pc = "serving" /\ reset_pending
    /\ LET ret == ResetResult(n_clicks)
       IN /\ reset_ret' = ret
          /\ IF ret = NoUpdate
             THEN UNCHANGED <<start_date, end_date, update_pending, response>>
             ELSE /\ start_date' = ret.start /\ end_date' = ret.end
                  /\ update_pending' = TRUE /\ response' = Unset
    /\ reset_pending' = FALSE
    /\ UNCHANGED <<pc, exc, tables, product, n_clicks, pg>>

\* update_dashboard (lines 122-250), called with the current values of its three
\* Inputs once the callback that writes two of them has returned.
update_dashboard ==
    /\ pc = "serving" /\ update_pending /\ ~reset_pending
    /\ response' = DashboardResult(product, start_date, end_date)
    /\ LET after == FramesAfterUpdate(product, start_date, end_date)
       IN /\ df_maven' = after.df_maven
          /\ df_market' = after.df_market
          /\ df_market_candle' = after.df_market_candle
    /\ update_pending' = FALSE
    /\ UNCHANGED <<pc, exc, maven_columns, unique_products, default_start, default_end,
                   inputs, reset_pending, reset_ret, pg>>

Next ==
    \/ StartupWellFormed
    \/ SelectProduct
    \/ PickDates
    \/ ClickReset
    \/ reset_date_range
    \/ update_dashboard

Spec == Init /\ [][Next]_vars

\* Startup on any files, then the page-load calls of the two callbacks.
NextPrep ==
    \/ StartupAnyFiles
    \/ reset_date_range
    \/ update_dashboard

SpecPrep == Init /\ [][NextPrep]_vars

\* ------------------------------------------------------------- pct_growth
\* pct_growth alone, on every pair of arguments of PctArgs.
PctArgs == {None, NaN} \cup {Num(i) : i \in (0 - MaxAbs)..MaxAbs}

InitPct == InitDash /\ pg \in [pc : {"call"}, start : PctArgs, end : PctArgs, ret : {None}]

CallPctGrowth ==
    /\ pg.pc = "call"
    /\ pg' = [pg EXCEPT !.pc = "ret", !.ret = pct_growth(pg.start, pg.end)]
    /\ UNCHANGED <<pc, exc, tables, inputs, dash>>

NextPct == CallPctGrowth

SpecPct == InitPct /\ [][NextPct]_vars

\* ================================================================= claims
\* What the specification means by its terms, stated apart from the handlers.

\* A timestamp lies in [start, end] at calendar-date granularity.
OnDays(ts, start, end) == start.iso <= ts.day /\ ts.day <= end.iso

\* filteredOrders and filteredMarket of the specification (4.2, steps 1 and 4).
SpecFilteredOrders(p, start, end) ==
    SelectSeq(df_maven, LAMBDA r : r.Product = p /\ OnDays(r.Date, start, end))
SpecFilteredMarket(start, end) ==
    SelectSeq(df_market, LAMBDA r : OnDays(r.Date, start, end))

\* pctGrowth of the specification (4.2, step 5): absent when a is absent or 0,
\* else (b - a) / a * 100, which is nan when a or b is.
SpecPctGrowth(a, b) ==
    IF a = None \/ a = Num(0) THEN None
    ELSE IF a = NaN \/ b = NaN THEN NaN
    ELSE Frac((b.n * a.d - a.n * b.d) * 100 * a.d, b.d * a.d * a.n)

AscendingByDate(s) == \A i \in 1..Len(s) - 1 : TsLeq(s[i].Date, s[i + 1].Date)

\* dateBounds of the specification: the first and last calendar day of the orders.
DateBoundsMin == CHOOSE d \in {df_maven[i].Date.day : i \in 1..Len(df_maven)} :
                     \A i \in 1..Len(df_maven) : d <= df_maven[i].Date.day
DateBoundsMax == CHOOSE d \in {df_maven[i].Date.day : i \in 1..Len(df_maven)} :
                     \A i \in 1..Len(df_maven) : d >= df_maven[i].Date.day

\* update_dashboard has returned for the inputs now selected.
Answered == pc = "serving" /\ response # Unset

\* The orders the handler went on with: dff_maven, empty when it returned early.
UsedOrders == IF response.kind = "Populated" THEN response.dff_maven ELSE <<>>

\* C1: the filtered orders used by update_dashboard are exactly the rows of the
\* orders table with Product = the selected product and start <= Date <= end at
\* calendar-date granularity, both ends inclusive, in ascending Date order.
C1_FilteredOrdersByCalendarDate ==
    Answered =>
        /\ UsedOrders = SpecFilteredOrders(product, start_date, end_date)
        /\ AscendingByDate(UsedOrders)

\* The same at the granularity the handler compares at: a row is kept when its
\* timestamp lies between midnight of start and midnight of end.
C1_FilteredOrdersByInstant ==
    Answered =>
        /\ UsedOrders = SelectSeq(df_maven, LAMBDA r :
               /\ r.Product = product
               /\ TsLeq([day |-> start_date.iso, tick |-> 0], r.Date)
               /\ TsLeq(r.Date, [day |-> end_date.iso, tick |-> 0]))
        /\ AscendingByDate(UsedOrders)

\* C2: update_dashboard returns the Empty outcome (blank figure, the one notice,
\* no KPI) if and only if no order row matches the selected product within the
\* date range, reversed ranges included, whatever the market rows.
C2_EmptyIffNoMatch ==
    Answered =>
        /\ (response.kind = "Empty") <=> (SpecFilteredOrders(product, start_date, end_date) = <<>>)
        /\ response.kind = "Empty" =>
               /\ response.figure = <<>>
               /\ response.children = <<EmptyNotice>>
               /\ "kpi" \notin DOMAIN response
        /\ start_date.iso > end_date.iso => response.kind = "Empty"

\* C5: for a Populated result with market rows in range, marketGrowth is
\* pctGrowth(first, last market price in range), priceChange is pctGrowth(first,
\* last filtered order's BagPrice), latestDiff is pctGrowth(last market price in
\* range, last filtered order's BagPrice).
C5_KpiValues ==
    (Answered /\ response.kind = "Populated"
              /\ SpecFilteredMarket(start_date, end_date) # <<>>) =>
        LET o == SpecFilteredOrders(product, start_date, end_date)
            m == SpecFilteredMarket(start_date, end_date)
        IN /\ response.kpi.market_growth =
                  SpecPctGrowth(First(m).MarketPrices, Last(m).MarketPrices)
           /\ response.kpi.price_change =
                  SpecPctGrowth(First(o).BagPrice, Last(o).BagPrice)
           /\ response.kpi.differential =
                  SpecPctGrowth(Last(m).MarketPrices, Last(o).BagPrice)

\* The scenario of C5: orders of 10.00 then 12.00 and market prices of 4.0 then
\* 5.0, all at midnight and in range, give 20, 25 and 140.
C5_Scenario ==
    (/\ Answered
     /\ df_maven = <<[Date |-> [day |-> 1, tick |-> 0], Product |-> product,
                      BagPrice |-> Num(10), Bags |-> 5],
                     [Date |-> [day |-> 2, tick |-> 0], Product |-> product,
                      BagPrice |-> Num(12), Bags |-> 5]>>
     /\ df_market = <<[Date |-> [day |-> 1, tick |-> 0], MarketPrices |-> Num(4)],
                      [Date |-> [day |-> 2, tick |-> 0], MarketPrices |-> Num(5)]>>
     /\ start_date = DateStr(1) /\ end_date = DateStr(2)) =>
        /\ response.kind = "Populated"
        /\ response.kpi = [market_growth |-> Num(25), price_change |-> Num(20),
                           differential |-> Num(140)]
        /\ response.figure.candlestick =
               <<[x |-> [day |-> 2, tick |-> 0], open |-> Num(4), high |-> Num(5),
                  low |-> Num(4), close |-> Num(5)]>>

\* C6: whenever the date range contains a matching order and no market price
\* row, the result is Populated, marketGrowth and latestDiff are absent and shown
\* as N/A, and priceChange is computed from the first and last filtered orders.
C6_NoMarketInRange ==
    (/\ Answered
     /\ SpecFilteredOrders(product, start_date, end_date) # <<>>
     /\ SpecFilteredMarket(start_date, end_date) = <<>>) =>
        LET o == SpecFilteredOrders(product, start_date, end_date)
        IN /\ response.kind = "Populated"
           /\ response.kpi.market_growth = None
           /\ response.kpi.differential = None
           /\ response.children[1].value = [text |-> "N/A"]
           /\ response.children[3].value = [text |-> "N/A"]
           /\ response.kpi.price_change = SpecPctGrowth(First(o).BagPrice, Last(o).BagPrice)
           /\ response.children[2].value = format_pct(response.kpi.price_change)

\* C7: every call of reset_date_range with n_clicks > 0 sets the date picker to
\* (dateBounds.min, dateBounds.max) whatever was selected; the call with
\* n_clicks = 0 leaves both dates as they are.
C7_ResetYieldsDateBounds ==
    [][(reset_pending /\ ~reset_pending') =>
          IF n_clicks > 0
          THEN /\ start_date' = DateStr(DateBoundsMin)
               /\ end_date' = DateStr(DateBoundsMax)
          ELSE /\ start_date' = start_date
               /\ end_date' = end_date]_vars

\* A reset with n_clicks > 0 has acted on a picker that showed other dates: it
\* is the second click, and a single day was selected after the first.
C7_Witness ==
    /\ pc = "serving" /\ n_clicks = 2 /\ ~reset_pending /\ update_pending
    /\ reset_ret = [kind |-> "dates", start |-> DateStr(1), end |-> DateStr(2)]
    /\ start_date = DateStr(1) /\ end_date = DateStr(2)
    /\ product = "Robusta"

C10_DefaultRangePopulated ==
    (/\ Answered
     /\ start_date = DateStr(DateBoundsMin) /\ end_date = DateStr(DateBoundsMax)
     /\ \E i \in 1..Len(unique_products) : unique_products[i] = product) =>
        response.kind = "Populated"

\* C3: pct_growth(a, b) is None if and only if a is None or a = 0; for every
\* other pair, an absent b included, it is (b - a) / a * 100.
PctIs(ret, a, b) ==
    IF a = NaN \/ b = NaN THEN ret = NaN
    ELSE /\ IsNum(ret) /\ ret.d > 0
         /\ ret.n * a.n = ret.d * (b.n - a.n) * 100
         /\ Gcd(Abs(ret.n), ret.d) = 1

C3_AbsentIffNoBase ==
    pg.pc = "ret" =>
        /\ (pg.ret = None) <=> (pg.start = None \/ pg.start = Num(0))
        /\ (pg.start # None /\ pg.start # Num(0) /\ pg.end # None) =>
               PctIs(pg.ret, pg.start, pg.end)

\* C3 as amended: pct_growth(a, b) is None if and only if a is None, b is None
\* or a = 0; for every other pair it is (b - a) / a * 100.
C3_AbsentIffNoBaseOrNoEnd ==
    pg.pc = "ret" =>
        /\ (pg.ret = None) <=> (pg.start = None \/ pg.end = None \/ pg.start = Num(0))
        /\ (pg.start # None /\ pg.start # Num(0) /\ pg.end # None) =>
               PctIs(pg.ret, pg.start, pg.end)

\* pct_growth has returned None for a present, non-zero a and an absent b.
C3_Witness ==
    /\ pg.pc = "ret" /\ pg.start = Num(4) /\ pg.end = None /\ pg.ret = None

\* C4: after startup on a market series with no missing value, the candles are
\* one fewer than the market rows and ascending by Date; candle i closes at
\* the price of market row i + 1 and opens at the price of the row before it,
\* High and Low are the larger and the smaller of the two; the earliest market
\* row has no candle.
NoMissingPrice == \A i \in 1..Len(df_market) : df_market[i].MarketPrices # NaN

C5_KpiValuesOfUsedOrders ==
    (Answered /\ response.kind = "Populated" /\ response.dff_market # <<>>) =>
        LET o == UsedOrders
            m == SpecFilteredMarket(start_date, end_date)
        IN /\ response.kpi.market_growth =
                  SpecPctGrowth(First(m).MarketPrices, Last(m).MarketPrices)
           /\ response.kpi.price_change =
                  SpecPctGrowth(First(o).BagPrice, Last(o).BagPrice)
           /\ response.kpi.differential =
                  SpecPctGrowth(Last(m).MarketPrices, Last(o).BagPrice)

\* C9: if either input file is empty or lacks a required column, startup fails:
\* the dashboard is served only for two non-empty files with every column.
C9_BadInputIsFatal ==
    pc = "serving" =>
        /\ maven_columns = MavenColumns
        /\ df_maven # <<>>
        /\ df_market # <<>>

\* What startup does reject: a file with no rows, and a file without Date,
\* Product or MarketPrices.
C9_RejectedAtStartup ==
    pc = "serving" =>
        /\ {"Date", "Product"} \subseteq maven_columns
        /\ df_maven # <<>>
        /\ df_market # <<>>
        /\ \A i \in 1..Len(df_market) : DOMAIN df_market[i] = MarketColumns

====
